---- MODULE Spec2Model ----
(***************************************************************************)
(* Multi-agent orchestration of invoice extraction                         *)
(* (OrchestratedDocumentProcessor, orchestratedProcessor.ts).              *)
(*                                                                         *)
(* One run of processDocumentOrchestrated is modelled: the three stages,   *)
(* the agent invocations of each stage (one step per invocation, joined    *)
(* by Promise.all), the consolidation of agent results, the overall        *)
(* confidence and the continuation decisions.                              *)
(*                                                                         *)
(* A response of the completion backend is one of: the call throws; the    *)
(* call returns text that JSON.parse rejects; the call returns the text of *)
(* a JSON object.  The object's fields outside Fields (documentType,       *)
(* lineItems, the echoed "confidence" key, ...) take no part in any        *)
(* decision of the controller and are left out of the mappings.            *)
(*                                                                         *)
(* Spec follows one run from the start of Stage 1; ServiceSpec starts at   *)
(* the route (API key set or not) and lets a backend call go unanswered;   *)
(* ManagerSpec is the agentManager singleton under the calls of concurrent *)
(* runs and readers.                                                       *)
(* RegistrySpec is the agent registry under config updates and             *)
(* shouldExecuteAgent calls, TuningSpec a run that starts after config     *)
(* updates, PreprocessSpec the Stage-1 agents from the uploaded buffer to  *)
(* their backend call, RouteSpec the upload and process-orchestrated       *)
(* handlers of concurrent requests, one step per await, and CleanupSpec    *)
(* the document cleanup manager with its timers.                           *)
(***************************************************************************)
EXTENDS Integers, Sequences, FiniteSets, TLC

\* ---------------------------------------------------------------- bounds
\* Number of distinct truthy sample values a field may carry.
NumVals == 2

ValNames == <<"v1", "v2", "v3", "v4">>
Vals == {ValNames[i] : i \in 1..NumVals}

\* ---------------------------------------------------------------- values
\* JavaScript values of a field of a Record<string, any>.  Absent is a key
\* that is not in the object (reads as undefined), Null is null, Empty is
\* the empty string, Zero is the number 0.
Absent == "<absent>"
Null == "<null>"
Empty == ""
Zero == "<0>"

\* !v of JavaScript, for the values a field can hold here.
Falsy(v) == v \in {Absent, Null, Empty, Zero}

criticalFields == {"totalAmount", "invoiceNumber", "providerName", "customerName"}
Fields == {"documentOrigin", "error"} \cup criticalFields

ParseErrorText == "Failed to parse JSON"

EmptyData == [k \in Fields |-> Absent]

\* An object literal with the given fields.
Obj(origin, total, number, provider, customer) ==
  [k \in Fields |->
     CASE k = "documentOrigin" -> origin
       [] k = "totalAmount" -> total
       [] k = "invoiceNumber" -> number
       [] k = "providerName" -> provider
       [] k = "customerName" -> customer
       [] OTHER -> Absent]

\* ---------------------------------------------------------------- agents
agentConfigurations ==
  [classification_agent |->
     [specializations |-> <<"document_type", "origin_detection", "currency_detection">>],
   structural_extraction_agent |->
     [specializations |-> <<"basic_fields", "amounts", "dates", "addresses">>],
   metadata_agent |->
     [specializations |-> <<"file_analysis", "quality_assessment", "context_inference">>],
   argentina_fiscal_agent |->
     [specializations |-> <<"cuit", "cae", "iva_breakdown", "condicion_fiscal">>],
   international_trade_agent |->
     [specializations |-> <<"international_trade", "hs_codes", "incoterms", "banking",
                            "ein_detection", "line_items", "observations">>],
   cross_validation_agent |->
     [specializations |-> <<"mathematical_validation", "logical_coherence",
                            "cross_reference">>]]

\* The retry budget AgentManager configures for each agent.
defaultConfigs ==
  [classification_agent |-> [maxRetries |-> 2],
   structural_extraction_agent |-> [maxRetries |-> 2],
   metadata_agent |-> [maxRetries |-> 1],
   argentina_fiscal_agent |-> [maxRetries |-> 3],
   international_trade_agent |-> [maxRetries |-> 3],
   conflict_resolution_agent |-> [maxRetries |-> 2],
   cross_validation_agent |-> [maxRetries |-> 2]]

Stage1Agents == <<"classification_agent", "structural_extraction_agent", "metadata_agent">>

AgentNames == {"classification_agent", "structural_extraction_agent", "metadata_agent",
               "argentina_fiscal_agent", "international_trade_agent",
               "conflict_resolution_agent", "cross_validation_agent"}

\* ------------------------------------------------- the completion backend
\* Confidence values the model may report in its JSON, per agent; 0 and a
\* missing key are both falsy for `result.confidence || default`.
ClassificationConfidences == {0, 90, 96, 130}
SpecializedConfidences == {60, 96}
CrossConfidences == {130}

Origins == {"argentina", "international", "unknown", "otro"}

\* What anthropic.messages.create can do for one call, given the objects and
\* the confidences the model may answer with.
Responses(objects, confidences) ==
  {[kind |-> "throw", data |-> EmptyData, hasConfidence |-> FALSE, confidence |-> 0],
   [kind |-> "malformed", data |-> EmptyData, hasConfidence |-> FALSE, confidence |-> 0]}
  \cup {[kind |-> "json", data |-> d, hasConfidence |-> FALSE, confidence |-> 0] :
          d \in objects}
  \cup {[kind |-> "json", data |-> d, hasConfidence |-> TRUE, confidence |-> c] :
          d \in objects, c \in confidences}

ClassificationObjects == {Obj(o, Absent, Absent, Absent, Absent) : o \in Origins \cup {Absent}}

StructuralObjects ==
  {EmptyData, Obj(Absent, "v1", "v1", "v1", Null)}
  \cup {Obj(Absent, t, "v1", "v1", "v1") : t \in Vals \cup {Zero}}

SpecializedObjects ==
  {EmptyData, Obj(Absent, Absent, Absent, Absent, "v1"),
   Obj(Absent, "v2", Absent, Absent, Absent)}

\* ---------------------------------------------------------------- helpers
\* result.confidence || dflt
ConfidenceOr(resp, dflt) ==
  IF resp.hasConfidence /\ resp.confidence # 0 THEN resp.confidence ELSE dflt

cleanAnthropicResponse(resp) ==
  IF resp.kind = "malformed"
    THEN [EmptyData EXCEPT !["error"] = ParseErrorText]
    ELSE resp.data

\* Math.round(num / den) for den > 0: floor(num/den + 1/2).
MathRound(num, den) == (2 * num + den) \div (2 * den)

RECURSIVE weightedSum(_)
weightedSum(agentResults) ==
  IF agentResults = <<>> THEN 0
  ELSE Head(agentResults).confidence * Len(Head(agentResults).specialization)
       + weightedSum(Tail(agentResults))

RECURSIVE totalWeight(_)
totalWeight(agentResults) ==
  IF agentResults = <<>> THEN 0
  ELSE Len(Head(agentResults).specialization) + totalWeight(Tail(agentResults))

\* As calculateOverallConfidence with the quotient truncated (Math.floor).
calculateOverallConfidence_Truncated(agentResults) ==
  IF Len(agentResults) = 0 THEN 0
  ELSE weightedSum(agentResults) \div totalWeight(agentResults)

calculateOverallConfidence(agentResults) ==
  IF Len(agentResults) = 0 THEN 0
  ELSE MathRound(weightedSum(agentResults), totalWeight(agentResults))

\* One pass of the inner loops of consolidateAgentResults for one result.
MergeResult(consolidated, result) ==
  [k \in Fields |->
     LET value == result.extractedData[k] IN
     IF value # Null /\ value # Absent /\ value # Empty
        /\ (Falsy(consolidated[k]) \/ result.confidence > 75)
       THEN value
       ELSE consolidated[k]]

RECURSIVE FoldResults(_, _)
FoldResults(consolidated, agentResults) ==
  IF agentResults = <<>> THEN consolidated
  ELSE FoldResults(MergeResult(consolidated, Head(agentResults)), Tail(agentResults))

consolidateAgentResults(agentResults) == FoldResults(EmptyData, agentResults)

hasConflicts(agentResults) ==
  \E i \in 1..Len(agentResults) : Len(agentResults[i].conflicts) > 0

\* The body is a stub in the source: it returns the empty list it created.
identifyConflicts(agentResults) == <<>>

hasSignificantUncertainty(data) ==
  \E field \in criticalFields : Falsy(data[field]) \/ data[field] = Null

\* ---------------------------------------------------------- agent results
NoResult ==
  [agentName |-> "none", extractedData |-> EmptyData, confidence |-> 0,
   specialization |-> <<>>, conflicts |-> <<>>]

AgentResult(name, data, conf, spec, conflicts) ==
  [agentName |-> name, extractedData |-> data, confidence |-> conf,
   specialization |-> spec, conflicts |-> conflicts]

runClassificationAgent(resp) ==
  IF resp.kind = "throw"
    THEN AgentResult("classification_agent", Obj("unknown", Absent, Absent, Absent, Absent),
                     30, agentConfigurations.classification_agent.specializations,
                     <<"Classification failed">>)
    ELSE AgentResult("classification_agent", cleanAnthropicResponse(resp),
                     ConfidenceOr(resp, 75),
                     agentConfigurations.classification_agent.specializations, <<>>)

\* JSON.parse is called directly here: unparseable text lands in the catch.
runStructuralExtractionAgent(resp, mime) ==
  IF resp.kind # "json"
    THEN AgentResult("structural_extraction_agent", EmptyData, 40, <<"basic_fields">>,
                     <<"Structural extraction failed">>)
    ELSE AgentResult("structural_extraction_agent", resp.data,
                     IF mime = "application/pdf" THEN 90 ELSE 40,
                     <<"basic_fields", "amounts", "dates", "parties">>, <<>>)

\* File names, by the branch of the includes() tests they take.
ArgentinaFileNames == {"factura_0001.pdf"}
InternationalFileNames == {"freight_77.pdf"}
FileNames == ArgentinaFileNames \cup InternationalFileNames \cup {"scan.pdf"}
MimeTypes == {"application/pdf", "image/jpeg"}

runMetadataAgent(name) ==
  AgentResult("metadata_agent",
              IF name \in ArgentinaFileNames
                THEN Obj("argentina", Absent, Absent, Absent, Absent)
                ELSE IF name \in InternationalFileNames
                  THEN Obj("international", Absent, Absent, Absent, Absent)
                  ELSE EmptyData,
              60, <<"file_analysis", "context_inference">>, <<>>)

runArgentineFiscalAgent(resp) ==
  IF resp.kind = "throw"
    THEN AgentResult("argentina_fiscal_agent", EmptyData, 50,
                     agentConfigurations.argentina_fiscal_agent.specializations,
                     <<"Fiscal validation failed">>)
    ELSE AgentResult("argentina_fiscal_agent", cleanAnthropicResponse(resp),
                     ConfidenceOr(resp, 90),
                     agentConfigurations.argentina_fiscal_agent.specializations, <<>>)

\* As runInternationalTradeAgent with the catch branch claiming confidence 99.
runInternationalTradeAgent_HighFallback(resp) ==
  IF resp.kind = "throw"
    THEN AgentResult("international_trade_agent", EmptyData, 99,
                     agentConfigurations.international_trade_agent.specializations,
                     <<"Trade data extraction failed">>)
    ELSE AgentResult("international_trade_agent", cleanAnthropicResponse(resp),
                     ConfidenceOr(resp, 88),
                     agentConfigurations.international_trade_agent.specializations, <<>>)

runInternationalTradeAgent(resp) ==
  IF resp.kind = "throw"
    THEN AgentResult("international_trade_agent", EmptyData, 45,
                     agentConfigurations.international_trade_agent.specializations,
                     <<"Trade data extraction failed">>)
    ELSE AgentResult("international_trade_agent", cleanAnthropicResponse(resp),
                     ConfidenceOr(resp, 88),
                     agentConfigurations.international_trade_agent.specializations, <<>>)

runConflictResolutionAgent(resp) ==
  IF resp.kind = "throw"
    THEN AgentResult("conflict_resolution_agent", EmptyData, 60,
                     <<"conflict_resolution">>, <<"Conflict resolution failed">>)
    ELSE AgentResult("conflict_resolution_agent", cleanAnthropicResponse(resp), 95,
                     <<"conflict_resolution", "data_validation", "consensus_building">>,
                     <<>>)

\* extractedData is result.finalOptimizedData || result: resp.data stands for
\* the mapping that expression yields for a JSON object.
runCrossValidationAgent(resp, context) ==
  IF resp.kind = "throw"
    THEN AgentResult("cross_validation_agent", context.consolidatedData, 80,
                     agentConfigurations.cross_validation_agent.specializations,
                     <<"Final validation had issues but data preserved">>)
    ELSE AgentResult("cross_validation_agent", cleanAnthropicResponse(resp),
                     ConfidenceOr(resp, 98),
                     agentConfigurations.cross_validation_agent.specializations, <<>>)

CrossObjects ==
  {Obj("argentina", "v1", "v1", "v1", "v1"), Obj(Absent, "v2", Null, Absent, Absent)}

\* ------------------------------------------------------------------ state
VARIABLES
  pc,                \* stage the run is in: "Stage1", "Stage2", "Stage3", "Done"
  mimeType,          \* params.mimeType
  fileName,          \* params.fileName
  invoked,           \* agents whose promises the current stage handed to Promise.all
  pending,           \* invoked agents whose promise has not settled yet
  results,           \* the promises' values, in the order of invoked (NoResult: unsettled)
  iterations,        \* the iterations array of the run
  orchestratedResult,\* what processDocumentOrchestrated returned
  agentMetrics,      \* agentManager.agentMetrics (executions, errorCount)
  executionHistory,  \* agentManager.executionHistory
  apiCallLogs,       \* this.apiCallLogs, one agent name per entry
  thrown,            \* agents whose backend call threw during the run
  backendCalls,      \* anthropic.messages.create calls made so far, per agent
  apiKeyConfigured,  \* process.env.ANTHROPIC_API_KEY is set
  hung,              \* agents whose backend call is never answered
  recordLog,         \* the recordAgentExecution calls made so far, per agent
  completedRuns,     \* the summary of every run that completed, in completion order
  historyView,       \* what the last getExecutionHistory call returned
  agentConfigs,      \* agentManager.agentConfigs
  shouldExecuteView, \* the last shouldExecuteAgent call and what it returned
  pdfBuffer,         \* what pdf2pic and pdf-parse make of params.fileBuffer
  pdfResults,        \* what pdfProcessor.processPDF returned to each Stage-1 agent
  content,           \* the message content each Stage-1 agent sent to the backend
  requests,          \* the HTTP requests in flight, each at one of its awaits
  processingResults, \* rows of the processing_results table
  documentStatus,    \* documents.status of the document the requests are about
  isRunning,         \* documentCleanupManager.isRunning
  timers,            \* timers startAutomaticCleanup has armed
  cleanupCalls,      \* the runCleanup calls made so far
  documents          \* expired rows of the documents table

vars == <<pc, mimeType, fileName, invoked, pending, results, iterations,
          orchestratedResult, agentMetrics, executionHistory, apiCallLogs, thrown,
          backendCalls, apiKeyConfigured, hung, recordLog, completedRuns, historyView,
          agentConfigs, shouldExecuteView, pdfBuffer, pdfResults, content, requests,
          processingResults, documentStatus, isRunning, timers, cleanupCalls, documents>>

\* The state of one orchestrated run and of the agentManager metrics.
orchestratorVars ==
  <<pc, mimeType, fileName, invoked, pending, results, iterations,
    orchestratedResult, agentMetrics, executionHistory, apiCallLogs, thrown,
    backendCalls, apiKeyConfigured, hung, recordLog, completedRuns, historyView>>

registryVars == <<agentConfigs, shouldExecuteView>>
pdfVars == <<pdfBuffer, pdfResults, content>>
routeVars == <<requests, processingResults, documentStatus>>
cleanupVars == <<isRunning, timers, cleanupCalls, documents>>

\* The state of the server outside the run.
siteVars == <<registryVars, pdfVars, routeVars, cleanupVars>>

NoRun ==
  [returned |-> FALSE, finalResult |-> EmptyData,
   processingMetrics |-> [iterationsUsed |-> 0, agentsInvolved |-> {},
                          finalConfidence |-> 0]]

HistoryLimit == 100

\* No getExecutionHistory call has been made.
NoView == [called |-> FALSE, limit |-> 0, entries |-> <<>>]

\* Runs that share the agentManager singleton; the orchestrator actions are
\* the steps of ThisRun.
Runs == {"run1", "run2"}
ThisRun == "run1"

\* averageConfidence is kept as the fraction <<numerator, denominator>> in
\* lowest terms (the quotient the code computes, without rounding error).
RECURSIVE GCD(_, _)
GCD(a, b) == IF b = 0 THEN a ELSE GCD(b, a % b)

Fraction(num, den) ==
  IF num = 0 THEN <<0, 1>> ELSE <<num \div GCD(num, den), den \div GCD(num, den)>>

InitialMetrics ==
  [a \in AgentNames |->
     [executions |-> 0, errorCount |-> 0, averageConfidence |-> Fraction(0, 1)]]

\* As recordAgentExecution with a failed call leaving executions alone.
recordAgentExecution_SkipOnFailure(metrics, agentName, success, confidence) ==
  IF agentName \notin DOMAIN metrics THEN metrics
  ELSE LET executions == metrics[agentName].executions + (IF success THEN 1 ELSE 0)
           average == metrics[agentName].averageConfidence
       IN [metrics EXCEPT
             ![agentName].executions = executions,
             ![agentName].averageConfidence =
                IF success
                  THEN Fraction(average[1] * (executions - 1) + confidence * average[2],
                                average[2] * executions)
                  ELSE @,
             ![agentName].errorCount = IF success THEN @ ELSE @ + 1]

recordAgentExecution(metrics, agentName, success, confidence) ==
  IF agentName \notin DOMAIN metrics THEN metrics
  ELSE LET executions == metrics[agentName].executions + 1
           average == metrics[agentName].averageConfidence
       IN [metrics EXCEPT
             ![agentName].executions = executions,
             ![agentName].averageConfidence =
                IF success
                  THEN Fraction(average[1] * (executions - 1) + confidence * average[2],
                                average[2] * executions)
                  ELSE @,
             ![agentName].errorCount = IF success THEN @ ELSE @ + 1]

\* As recordSystemExecution with a full history keeping its first
\* HistoryLimit entries (slice(0, 100)).
recordSystemExecution_KeepOldest(history, entry) ==
  LET pushed == Append(history, entry) IN
  IF Len(pushed) > HistoryLimit
    THEN SubSeq(pushed, 1, HistoryLimit)
    ELSE pushed

recordSystemExecution(history, entry) ==
  LET pushed == Append(history, entry) IN
  IF Len(pushed) > HistoryLimit
    THEN SubSeq(pushed, Len(pushed) - HistoryLimit + 1, Len(pushed))
    ELSE pushed

\* The unsettled promise array a stage hands to Promise.all.
Unsettled(agents) == [i \in 1..Len(agents) |-> NoResult]

\* As StageResults with the results of failed calls filtered out of the array.
StageResults_DropFailed == SelectSeq(results, LAMBDA r : Len(r.conflicts) = 0)

\* What Promise.all resolves to: the values in the order of the promises,
\* whatever the order they settled in.
StageResults == results

\* The agent registry after initializeDefaultConfigs: every agent enabled.
InitialConfigs ==
  [a \in AgentNames |-> [enabled |-> TRUE, maxRetries |-> defaultConfigs[a].maxRetries]]

\* No shouldExecuteAgent call has been made.
NoDecision == [called |-> FALSE, agentName |-> "", documentType |-> "", result |-> FALSE]

\* A PDF that pdf2pic rasterizes and pdf-parse reads.
SoundPDF == [raster |-> "pages", text |-> "text"]

\* The Stage-1 agents that build a message content, and the content of an
\* agent that has not sent any.
ContentAgents == {"classification_agent", "structural_extraction_agent"}
NotSent == <<>>
NoPDFResult == [called |-> FALSE]

\* Requests the routes may be handling at the same time, all for document d1.
RequestIds == {"r1", "r2"}
NoRequest == [pc |-> "none", route |-> "", result |-> NoRun, answer |-> 0]

\* The server outside the run, before any request, timer or cleanup.
SiteIdle ==
  /\ agentConfigs = InitialConfigs
  /\ shouldExecuteView = NoDecision
  /\ pdfBuffer = SoundPDF
  /\ pdfResults = [a \in ContentAgents |-> NoPDFResult]
  /\ content = [a \in ContentAgents |-> NotSent]
  /\ requests = [r \in RequestIds |-> NoRequest]
  /\ processingResults = <<>>
  /\ documentStatus = "uploaded"
  /\ isRunning = FALSE
  /\ timers = [timeouts |-> 0, intervals |-> 0]
  /\ cleanupCalls = <<>>
  /\ documents = {}

Init ==
  /\ pc = "Stage1"
  /\ mimeType \in MimeTypes
  /\ fileName \in FileNames
  /\ invoked = Stage1Agents
  /\ pending = {Stage1Agents[i] : i \in 1..Len(Stage1Agents)}
  /\ results = Unsettled(Stage1Agents)
  /\ iterations = <<>>
  /\ orchestratedResult = NoRun
  /\ agentMetrics = InitialMetrics
  /\ executionHistory = <<>>
  /\ apiCallLogs = <<>>
  /\ thrown = {}
  /\ backendCalls = [a \in AgentNames |-> 0]
  /\ apiKeyConfigured = TRUE
  /\ hung = {}
  /\ recordLog = [a \in AgentNames |-> <<>>]
  /\ completedRuns = <<>>
  /\ historyView = NoView
  /\ SiteIdle

\* ------------------------------------------------------- agent invocations
\* The call agentManager.recordAgentExecution(agentName, success, confidence, ...).
RecordAgentExecution(run, agentName, success, confidence) ==
  /\ agentMetrics' = recordAgentExecution(agentMetrics, agentName, success, confidence)
  /\ recordLog' = [recordLog EXCEPT
                     ![agentName] = Append(@, [run |-> run, success |-> success,
                                               confidence |-> confidence])]

\* As Settle with the value pushed onto the result array when the promise
\* settles (completion order) instead of kept at the promise's own index.
Settle_CompletionOrder(agent, resp, result) ==
  /\ agent \notin hung
  /\ results' = [i \in 1..Len(invoked) |->
                   IF /\ results[i] = NoResult
                      /\ \A h \in 1..(i - 1) : results[h] # NoResult
                     THEN result ELSE results[i]]
  /\ thrown' = IF resp.kind = "throw" THEN thrown \cup {agent} ELSE thrown
  /\ backendCalls' = IF resp.kind = "none" THEN backendCalls
                     ELSE [backendCalls EXCEPT ![agent] = @ + 1]
  /\ pending' = pending \ {agent}
  /\ UNCHANGED <<pc, mimeType, fileName, invoked, iterations, orchestratedResult,
                 executionHistory, apiKeyConfigured, hung, completedRuns, historyView, siteVars>>

Settle(agent, resp, result) ==
  /\ agent \notin hung
  /\ results' = [i \in 1..Len(invoked) |->
                   IF invoked[i] = agent THEN result ELSE results[i]]
  /\ thrown' = IF resp.kind = "throw" THEN thrown \cup {agent} ELSE thrown
  /\ backendCalls' = IF resp.kind = "none" THEN backendCalls
                     ELSE [backendCalls EXCEPT ![agent] = @ + 1]
  /\ pending' = pending \ {agent}
  /\ UNCHANGED <<pc, mimeType, fileName, invoked, iterations, orchestratedResult,
                 executionHistory, apiKeyConfigured, hung, completedRuns, historyView, siteVars>>

RunClassificationAgent ==
  /\ pc = "Stage1"
  /\ "classification_agent" \in pending
  /\ \E resp \in Responses(ClassificationObjects, ClassificationConfidences) :
       /\ Settle("classification_agent", resp, runClassificationAgent(resp))
       /\ apiCallLogs' = IF resp.kind = "throw" THEN apiCallLogs
                         ELSE Append(apiCallLogs, "classification_agent")
       /\ RecordAgentExecution(ThisRun, "classification_agent", resp.kind # "throw",
                               runClassificationAgent(resp).confidence)

RunStructuralExtractionAgent ==
  /\ pc = "Stage1"
  /\ "structural_extraction_agent" \in pending
  /\ \E resp \in Responses(StructuralObjects, {}) :
       /\ Settle("structural_extraction_agent", resp,
                 runStructuralExtractionAgent(resp, mimeType))
       /\ RecordAgentExecution(ThisRun, "structural_extraction_agent", resp.kind = "json",
                               runStructuralExtractionAgent(resp, mimeType).confidence)
  /\ UNCHANGED apiCallLogs

RunMetadataAgent ==
  /\ pc = "Stage1"
  /\ "metadata_agent" \in pending
  /\ Settle("metadata_agent", [kind |-> "none"], runMetadataAgent(fileName))
  /\ UNCHANGED <<agentMetrics, apiCallLogs, recordLog>>

SpecializedResult(agent, resp) ==
  CASE agent = "argentina_fiscal_agent" -> runArgentineFiscalAgent(resp)
    [] agent = "international_trade_agent" -> runInternationalTradeAgent(resp)
    [] OTHER -> runConflictResolutionAgent(resp)

RunSpecializedAgent ==
  /\ pc = "Stage2"
  /\ \E agent \in pending, resp \in Responses(SpecializedObjects, SpecializedConfidences) :
       /\ Settle(agent, resp, SpecializedResult(agent, resp))
       /\ apiCallLogs' = IF agent = "conflict_resolution_agent" THEN apiCallLogs
                         ELSE Append(apiCallLogs, agent)
  /\ UNCHANGED <<agentMetrics, recordLog>>

RunCrossValidationAgent ==
  /\ pc = "Stage3"
  /\ "cross_validation_agent" \in pending
  /\ \E resp \in Responses(CrossObjects, CrossConfidences) :
       Settle("cross_validation_agent", resp,
              runCrossValidationAgent(resp, iterations[Len(iterations)]))
  /\ apiCallLogs' = Append(apiCallLogs, "cross_validation_agent")
  /\ UNCHANGED <<agentMetrics, recordLog>>

\* ------------------------------------------------------------- iterations
IterationResult(number, agentResults, data, confidence, requiresNext) ==
  [iterationNumber |-> number, agentResults |-> agentResults,
   consolidatedData |-> data, overallConfidence |-> confidence,
   requiresNextIteration |-> requiresNext]

runIteration1_BaseAnalysis(agentResults) ==
  LET overallConfidence == calculateOverallConfidence(agentResults) IN
  IterationResult(1, agentResults, consolidateAgentResults(agentResults),
                  overallConfidence,
                  overallConfidence < 85 \/ hasConflicts(agentResults))

\* As specializationAgents with the fiscal agent run for every origin other
\* than 'international'.
specializationAgents_NotInternational(previousIteration) ==
  LET documentType == previousIteration.consolidatedData["documentOrigin"]
      conflicts == identifyConflicts(previousIteration.agentResults)
  IN (IF documentType # "international"
        THEN <<"argentina_fiscal_agent">> ELSE <<>>)
     \o (IF documentType = "international" \/ documentType = "unknown"
           THEN <<"international_trade_agent">> ELSE <<>>)
     \o (IF Len(conflicts) > 0 THEN <<"conflict_resolution_agent">> ELSE <<>>)

\* The promises runIteration2_SpecializedRefinement creates, in push order.
specializationAgents(previousIteration) ==
  LET documentType == previousIteration.consolidatedData["documentOrigin"]
      conflicts == identifyConflicts(previousIteration.agentResults)
  IN (IF documentType = "argentina" \/ documentType = "unknown"
        THEN <<"argentina_fiscal_agent">> ELSE <<>>)
     \o (IF documentType = "international" \/ documentType = "unknown"
           THEN <<"international_trade_agent">> ELSE <<>>)
     \o (IF Len(conflicts) > 0 THEN <<"conflict_resolution_agent">> ELSE <<>>)

\* As runIteration2_SpecializedRefinement with the iteration number of the
\* first iteration.
runIteration2_WrongNumber(previousIteration, specializedResults) ==
  LET allResults == previousIteration.agentResults \o specializedResults
      consolidatedData == consolidateAgentResults(allResults)
      overallConfidence == calculateOverallConfidence(specializedResults)
  IN IterationResult(1, specializedResults, consolidatedData, overallConfidence,
                     overallConfidence < 95 /\ hasSignificantUncertainty(consolidatedData))

runIteration2_SpecializedRefinement(previousIteration, specializedResults) ==
  LET allResults == previousIteration.agentResults \o specializedResults
      consolidatedData == consolidateAgentResults(allResults)
      overallConfidence == calculateOverallConfidence(specializedResults)
  IN IterationResult(2, specializedResults, consolidatedData, overallConfidence,
                     overallConfidence < 95 /\ hasSignificantUncertainty(consolidatedData))

\* As runIteration3_FinalVerification with the agent's data passed through
\* the merge instead of taken as it is.
runIteration3_Consolidated(verificationResult) ==
  IterationResult(3, <<verificationResult>>,
                  consolidateAgentResults(<<verificationResult>>),
                  verificationResult.confidence, FALSE)

runIteration3_FinalVerification(verificationResult) ==
  IterationResult(3, <<verificationResult>>, verificationResult.extractedData,
                  verificationResult.confidence, FALSE)

\* The two guards of processDocumentOrchestrated.
\* As ProceedToIteration2 with the first guard comparing against 80.
ProceedToIteration2_Below80(iteration1) ==
  iteration1.requiresNextIteration /\ iteration1.overallConfidence < 80

ProceedToIteration2(iteration1) ==
  iteration1.requiresNextIteration /\ iteration1.overallConfidence < 90

ProceedToIteration3(iteration2) ==
  iteration2.requiresNextIteration /\ iteration2.overallConfidence < 95

agentsUsed(its) ==
  UNION {{its[i].agentResults[j].agentName : j \in 1..Len(its[i].agentResults)} :
           i \in 1..Len(its)}

\* The arguments of recordSystemExecution for a run with iterations its
\* (the timestamp and totalTime are left out: time is not modelled).
ExecutionSummary(documentId, its) ==
  [documentId |-> documentId,
   agentsUsed |-> agentsUsed(its),
   finalConfidence |-> its[Len(its)].overallConfidence,
   iterationsUsed |-> Len(its)]

\* The call agentManager.recordSystemExecution(documentId, agentsUsed, ...) a
\* run makes when it completes.
RecordSystemExecution(entry) ==
  /\ executionHistory' = recordSystemExecution(executionHistory, entry)
  /\ completedRuns' = Append(completedRuns, entry)

\* The tail of processDocumentOrchestrated: record the execution and return.
Return(its) ==
  \E finalIteration \in {its[Len(its)]} :
  /\ pc' = "Done"
  /\ iterations' = its
  /\ invoked' = <<>>
  /\ pending' = {}
  /\ results' = <<>>
  /\ RecordSystemExecution(ExecutionSummary("d1", its))
  /\ orchestratedResult' =
       [returned |-> TRUE, finalResult |-> finalIteration.consolidatedData,
        processingMetrics |->
          [iterationsUsed |-> Len(its), agentsInvolved |-> agentsUsed(its),
           finalConfidence |-> finalIteration.overallConfidence]]

\* Promise.all hands its promises over and the next stage starts.
Enter(stage, agents, its) ==
  /\ pc' = stage
  /\ iterations' = its
  /\ invoked' = agents
  /\ pending' = {agents[i] : i \in 1..Len(agents)}
  /\ results' = Unsettled(agents)
  /\ UNCHANGED <<orchestratedResult, executionHistory, completedRuns>>

\* As CompleteIteration1 with the stage continuing as soon as two of the
\* three promises have settled.
CompleteIteration1_NoBarrier ==
  /\ pc = "Stage1"
  /\ Cardinality(pending) <= 1
  /\ \E iteration1 \in {runIteration1_BaseAnalysis(StageResults)} :
       IF ProceedToIteration2(iteration1)
         THEN Enter("Stage2", specializationAgents(iteration1),
                    Append(iterations, iteration1))
         ELSE Return(Append(iterations, iteration1))
  /\ UNCHANGED <<mimeType, fileName, agentMetrics, apiCallLogs, thrown, backendCalls,
                 apiKeyConfigured, hung, recordLog, historyView, siteVars>>

\* Stage 1's Promise.all resolves: iteration 1 is built and the run either
\* starts iteration 2 or returns.
CompleteIteration1 ==
  /\ pc = "Stage1"
  /\ pending = {}
  /\ \E iteration1 \in {runIteration1_BaseAnalysis(StageResults)} :
       IF ProceedToIteration2(iteration1)
         THEN Enter("Stage2", specializationAgents(iteration1),
                    Append(iterations, iteration1))
         ELSE Return(Append(iterations, iteration1))
  /\ UNCHANGED <<mimeType, fileName, agentMetrics, apiCallLogs, thrown, backendCalls,
                 apiKeyConfigured, hung, recordLog, historyView, siteVars>>

\* As CompleteIteration2 with refinement repeated while iteration 2 still
\* asks for another iteration.
CompleteIteration2_Loop ==
  /\ pc = "Stage2"
  /\ pending = {}
  /\ \E iteration2 \in {runIteration2_SpecializedRefinement(iterations[Len(iterations)],
                                                            StageResults)} :
       IF ProceedToIteration3(iteration2)
         THEN Enter("Stage2", specializationAgents(iteration2),
                    Append(iterations, iteration2))
         ELSE Return(Append(iterations, iteration2))
  /\ UNCHANGED <<mimeType, fileName, agentMetrics, apiCallLogs, thrown, backendCalls,
                 apiKeyConfigured, hung, recordLog, historyView, siteVars>>

CompleteIteration2 ==
  /\ pc = "Stage2"
  /\ pending = {}
  /\ \E iteration2 \in {runIteration2_SpecializedRefinement(iterations[Len(iterations)],
                                                            StageResults)} :
       IF ProceedToIteration3(iteration2)
         THEN Enter("Stage3", <<"cross_validation_agent">>,
                    Append(iterations, iteration2))
         ELSE Return(Append(iterations, iteration2))
  /\ UNCHANGED <<mimeType, fileName, agentMetrics, apiCallLogs, thrown, backendCalls,
                 apiKeyConfigured, hung, recordLog, historyView, siteVars>>

CompleteIteration3 ==
  /\ pc = "Stage3"
  /\ pending = {}
  /\ \E iteration3 \in {runIteration3_FinalVerification(StageResults[1])} :
       Return(Append(iterations, iteration3))
  /\ UNCHANGED <<mimeType, fileName, agentMetrics, apiCallLogs, thrown, backendCalls,
                 apiKeyConfigured, hung, recordLog, historyView, siteVars>>

Next ==
  \/ RunClassificationAgent
  \/ RunStructuralExtractionAgent
  \/ RunMetadataAgent
  \/ RunSpecializedAgent
  \/ RunCrossValidationAgent
  \/ CompleteIteration1
  \/ CompleteIteration2
  \/ CompleteIteration3

Spec == Init /\ [][Next]_vars

\* Every pending promise settles (each backend call returns or throws) and a
\* settled Promise.all continues.
FairSpec == Spec /\ WF_vars(Next)

\* ------------------------------------------------ the route and the backend
\* The state of the server when POST /api/documents/:id/process-orchestrated
\* arrives, with or without an API key in the environment.
ServiceInit ==
  /\ pc = "Request"
  /\ apiKeyConfigured \in BOOLEAN
  /\ mimeType \in MimeTypes
  /\ fileName \in FileNames
  /\ invoked = <<>>
  /\ pending = {}
  /\ results = <<>>
  /\ iterations = <<>>
  /\ orchestratedResult = NoRun
  /\ agentMetrics = InitialMetrics
  /\ executionHistory = <<>>
  /\ apiCallLogs = <<>>
  /\ thrown = {}
  /\ backendCalls = [a \in AgentNames |-> 0]
  /\ hung = {}
  /\ recordLog = [a \in AgentNames |-> <<>>]
  /\ completedRuns = <<>>
  /\ historyView = NoView
  /\ SiteIdle

\* As PostProcessOrchestrated with neither the route nor the constructor
\* looking at the API key.
PostProcessOrchestrated_NoKeyCheck ==
  /\ pc = "Request"
  /\ pc' = "Stage1"
  /\ invoked' = Stage1Agents
  /\ pending' = {Stage1Agents[i] : i \in 1..Len(Stage1Agents)}
  /\ results' = Unsettled(Stage1Agents)
  /\ UNCHANGED <<mimeType, fileName, iterations, orchestratedResult, agentMetrics,
                 executionHistory, apiCallLogs, thrown, backendCalls, apiKeyConfigured,
                 hung, recordLog, completedRuns, historyView, siteVars>>

\* The route answers 400 without an API key (and the constructor of
\* OrchestratedDocumentProcessor would throw); with one, it constructs the
\* processor and processDocumentOrchestrated starts Stage 1.
PostProcessOrchestrated ==
  /\ pc = "Request"
  /\ IF apiKeyConfigured
       THEN /\ pc' = "Stage1"
            /\ invoked' = Stage1Agents
            /\ pending' = {Stage1Agents[i] : i \in 1..Len(Stage1Agents)}
            /\ results' = Unsettled(Stage1Agents)
       ELSE /\ pc' = "Rejected"
            /\ UNCHANGED <<invoked, pending, results>>
  /\ UNCHANGED <<mimeType, fileName, iterations, orchestratedResult, agentMetrics,
                 executionHistory, apiCallLogs, thrown, backendCalls, apiKeyConfigured,
                 hung, recordLog, completedRuns, historyView, siteVars>>

\* anthropic.messages.create is awaited with no timeout: a call the backend
\* never answers leaves the agent's promise pending.
BackendCallNeverReturns ==
  /\ \E agent \in pending \ (hung \cup {"metadata_agent"}) : hung' = hung \cup {agent}
  /\ UNCHANGED <<pc, mimeType, fileName, invoked, pending, results, iterations,
                 orchestratedResult, agentMetrics, executionHistory, apiCallLogs, thrown,
                 backendCalls, apiKeyConfigured, recordLog, completedRuns, historyView, siteVars>>

ServiceNext ==
  \/ PostProcessOrchestrated
  \/ BackendCallNeverReturns
  \/ Next

ServiceSpec == ServiceInit /\ [][ServiceNext]_vars

\* ------------------------------------------------------- the agent manager
\* The agentManager singleton as concurrent runs and readers use it.
\* Number of recordAgentExecution and recordSystemExecution calls explored.
MaxOps == 3

\* JavaScript's Array.prototype.slice(start), start an integer (-0 is 0).
Slice(array, start) ==
  LET len == Len(array)
      from == IF start < 0
                THEN (IF len + start > 0 THEN len + start ELSE 0)
                ELSE (IF start < len THEN start ELSE len)
  IN SubSeq(array, from + 1, len)

Reverse(array) == [i \in 1..Len(array) |-> array[Len(array) + 1 - i]]

getExecutionHistory(history, limit) == Reverse(Slice(history, 0 - limit))

\* Two runs as the orchestrator produces them: one that stops after Stage 1,
\* and one in which every backend call throws.
JsonResponse(data, confidence) ==
  [kind |-> "json", data |-> data, hasConfidence |-> TRUE, confidence |-> confidence]

ShortRun ==
  <<runIteration1_BaseAnalysis(
      <<runClassificationAgent(
          JsonResponse(Obj("argentina", Absent, Absent, Absent, Absent), 96)),
        runStructuralExtractionAgent(
          JsonResponse(Obj(Absent, "v1", "v1", "v1", "v1"), 0), "application/pdf"),
        runMetadataAgent("scan.pdf")>>)>>

FailedRun ==
  LET throw == [kind |-> "throw", data |-> EmptyData, hasConfidence |-> FALSE,
                confidence |-> 0]
      iteration1 == runIteration1_BaseAnalysis(
                      <<runClassificationAgent(throw),
                        runStructuralExtractionAgent(throw, "application/pdf"),
                        runMetadataAgent("scan.pdf")>>)
      iteration2 == runIteration2_SpecializedRefinement(
                      iteration1,
                      <<runArgentineFiscalAgent(throw), runInternationalTradeAgent(throw)>>)
  IN <<iteration1, iteration2,
       runIteration3_FinalVerification(runCrossValidationAgent(throw, iteration2))>>

RunSummaries ==
  {ExecutionSummary(documentId, its) : documentId \in {"d1", "d2"},
                                       its \in {ShortRun, FailedRun}}

\* The history after n completed runs.
PastRuns(n) ==
  [i \in 1..n |-> ExecutionSummary(IF i % 2 = 0 THEN "d2" ELSE "d1", ShortRun)]

\* Numbers of runs completed before the explored calls: none, and one short
\* of the history's capacity.
CompletedBefore == {0, HistoryLimit - 1}

ManagerInit ==
  /\ pc = "Idle"
  /\ apiKeyConfigured = TRUE
  /\ mimeType = "application/pdf"
  /\ fileName = "scan.pdf"
  /\ invoked = <<>>
  /\ pending = {}
  /\ results = <<>>
  /\ iterations = <<>>
  /\ orchestratedResult = NoRun
  /\ agentMetrics = InitialMetrics
  /\ \E n \in CompletedBefore :
       /\ executionHistory = PastRuns(n)
       /\ completedRuns = PastRuns(n)
  /\ apiCallLogs = <<>>
  /\ thrown = {}
  /\ backendCalls = [a \in AgentNames |-> 0]
  /\ hung = {}
  /\ recordLog = [a \in AgentNames |-> <<>>]
  /\ historyView = NoView
  /\ SiteIdle

\* Calls explored so far.
OpsDone ==
  LET recorded == Len(recordLog["classification_agent"])
                  + Len(recordLog["structural_extraction_agent"])
      before == CHOOSE n \in CompletedBefore :
                  n <= Len(completedRuns) /\ Len(completedRuns) <= n + MaxOps
  IN recorded + Len(completedRuns) - before

\* A run reaches a recordAgentExecution call of its classification or
\* structural agent: success with the result's confidence, or failure with
\* the agent's fallback confidence.
AgentRecords ==
  /\ OpsDone < MaxOps
  /\ \E run \in Runs, agentName \in {"classification_agent", "structural_extraction_agent"},
        success \in BOOLEAN, confidence \in {60, 90} :
       /\ ~success => confidence = 60
       /\ RecordAgentExecution(run, agentName, success,
                               IF success THEN confidence
                               ELSE IF agentName = "classification_agent" THEN 30 ELSE 40)
  /\ UNCHANGED <<pc, mimeType, fileName, invoked, pending, results, iterations,
                 orchestratedResult, executionHistory, apiCallLogs, thrown, backendCalls,
                 apiKeyConfigured, hung, completedRuns, historyView, siteVars>>

\* A run reaches the tail of processDocumentOrchestrated.
RunCompletes ==
  /\ OpsDone < MaxOps
  /\ \E entry \in RunSummaries : RecordSystemExecution(entry)
  /\ UNCHANGED <<pc, mimeType, fileName, invoked, pending, results, iterations,
                 orchestratedResult, agentMetrics, apiCallLogs, thrown, backendCalls,
                 apiKeyConfigured, hung, recordLog, historyView, siteVars>>

\* A reader calls agentManager.getExecutionHistory(limit); 20 is the default.
GetExecutionHistory ==
  /\ \E limit \in {0, 1, 20} :
       historyView' = [called |-> TRUE, limit |-> limit,
                       entries |-> getExecutionHistory(executionHistory, limit)]
  /\ UNCHANGED <<pc, mimeType, fileName, invoked, pending, results, iterations,
                 orchestratedResult, agentMetrics, executionHistory, apiCallLogs, thrown,
                 backendCalls, apiKeyConfigured, hung, recordLog, completedRuns, siteVars>>

ManagerNext ==
  \/ AgentRecords
  \/ RunCompletes
  \/ GetExecutionHistory

ManagerSpec == ManagerInit /\ [][ManagerNext]_vars

\* ------------------------------------------------------ the agent registry
\* Agent names a caller may pass: the registered ones and one that is not.
RegistryNames == AgentNames \cup {"ocr_agent"}

\* As shouldExecuteAgent with the enabled flag of the config not consulted.
shouldExecuteAgent_IgnoreEnabled(configs, agentName, documentType) ==
  IF agentName \notin DOMAIN configs THEN FALSE
  ELSE IF documentType = "argentina" /\ agentName = "international_trade_agent" THEN FALSE
  ELSE IF documentType = "international" /\ agentName = "argentina_fiscal_agent" THEN FALSE
  ELSE TRUE

shouldExecuteAgent(configs, agentName, documentType) ==
  IF agentName \notin DOMAIN configs \/ ~configs[agentName].enabled THEN FALSE
  ELSE IF documentType = "argentina" /\ agentName = "international_trade_agent" THEN FALSE
  ELSE IF documentType = "international" /\ agentName = "argentina_fiscal_agent" THEN FALSE
  ELSE TRUE

\* { ...config, ...updates } for updates that carry the enabled flag.
updateAgentConfig(configs, agentName, updates) ==
  IF agentName \notin DOMAIN configs THEN configs
  ELSE [configs EXCEPT ![agentName].enabled = updates.enabled]

\* PUT /api/agents/:agentName/config reaches agentManager.updateAgentConfig.
UpdateAgentConfig(agentName, updates) ==
  /\ agentConfigs' = updateAgentConfig(agentConfigs, agentName, updates)
  /\ UNCHANGED <<orchestratorVars, shouldExecuteView, pdfVars, routeVars, cleanupVars>>

\* A caller asks agentManager.shouldExecuteAgent(agentName, documentType);
\* Absent is a call without the second argument.
ShouldExecuteAgent ==
  /\ \E agentName \in RegistryNames, documentType \in Origins \cup {Absent} :
       shouldExecuteView' =
         [called |-> TRUE, agentName |-> agentName, documentType |-> documentType,
          result |-> shouldExecuteAgent(agentConfigs, agentName, documentType)]
  /\ UNCHANGED <<orchestratorVars, agentConfigs, pdfVars, routeVars, cleanupVars>>

\* The registry of a server that has recorded some agent executions and
\* completed some runs, or none.
RegistryInit ==
  /\ pc = "Idle"
  /\ apiKeyConfigured = TRUE
  /\ mimeType = "application/pdf"
  /\ fileName = "scan.pdf"
  /\ invoked = <<>>
  /\ pending = {}
  /\ results = <<>>
  /\ iterations = <<>>
  /\ orchestratedResult = NoRun
  /\ \E recorded \in BOOLEAN :
       /\ agentMetrics = IF recorded
                           THEN recordAgentExecution(InitialMetrics, "classification_agent",
                                                     TRUE, 90)
                           ELSE InitialMetrics
       /\ recordLog = [a \in AgentNames |->
                         IF recorded /\ a = "classification_agent"
                           THEN <<[run |-> ThisRun, success |-> TRUE, confidence |-> 90]>>
                           ELSE <<>>]
  /\ \E n \in {0, 2} :
       /\ executionHistory = PastRuns(n)
       /\ completedRuns = PastRuns(n)
  /\ apiCallLogs = <<>>
  /\ thrown = {}
  /\ backendCalls = [a \in AgentNames |-> 0]
  /\ hung = {}
  /\ historyView = NoView
  /\ SiteIdle

RegistryNext ==
  \/ \E agentName \in RegistryNames, enabled \in BOOLEAN :
       UpdateAgentConfig(agentName, [enabled |-> enabled])
  \/ ShouldExecuteAgent

RegistrySpec == RegistryInit /\ [][RegistryNext]_vars

\* ------------------------------------------------ the routes and the tables
\* A run refined by the fiscal agent at the given confidence and ended there.
RefinedRun(confidence) ==
  LET iteration1 == runIteration1_BaseAnalysis(
                      <<runClassificationAgent(
                          JsonResponse(Obj("argentina", Absent, Absent, Absent, Absent), 0)),
                        runStructuralExtractionAgent(
                          JsonResponse(Obj(Absent, "v1", "v1", "v1", "v1"), 0),
                          "application/pdf"),
                        runMetadataAgent("scan.pdf")>>)
  IN <<iteration1,
       runIteration2_SpecializedRefinement(
         iteration1,
         <<runArgentineFiscalAgent(
             JsonResponse(Obj("argentina", "v1", "v1", "v1", "v1"), confidence))>>)>>

\* What processDocumentOrchestrated returns for a run with iterations its.
OrchestratedResult(its) ==
  [returned |-> TRUE, finalResult |-> its[Len(its)].consolidatedData,
   processingMetrics |->
     [iterationsUsed |-> Len(its), agentsInvolved |-> agentsUsed(its),
      finalConfidence |-> its[Len(its)].overallConfidence]]

\* Runs the routes may get back: final confidence 80, 85, 90 and 96.
RunResults ==
  {OrchestratedResult(its) : its \in {FailedRun, ShortRun, RefinedRun(0), RefinedRun(96)}}

\* The row storage.createOrchestratedProcessingResult inserts.
createOrchestratedProcessingResult(documentId, result) ==
  [documentId |-> documentId,
   confidence |-> result.processingMetrics.finalConfidence,
   needsValidation |-> result.processingMetrics.finalConfidence < 90]

finalStatus(result) ==
  IF result.processingMetrics.finalConfidence >= 95
    THEN "completed" ELSE "validation_required"

Answered(r, status) == [requests EXCEPT ![r].pc = "answered", ![r].answer = status]

At(r, step) == [requests EXCEPT ![r].pc = step]

\* POST /api/documents/upload creates the document and goes on to process
\* it automatically.
UploadArrives(r) ==
  /\ requests[r].pc = "none"
  /\ documentStatus = "none"
  /\ documentStatus' = "uploaded"
  /\ requests' = [requests EXCEPT ![r].pc = "check", ![r].route = "upload"]
  /\ UNCHANGED <<orchestratorVars, registryVars, pdfVars, processingResults, cleanupVars>>

\* POST /api/documents/:id/process-orchestrated looks the document up:
\* 404 when there is none.
ProcessOrchestratedArrives(r) ==
  /\ requests[r].pc = "none"
  /\ requests' = IF documentStatus = "none"
                   THEN [requests EXCEPT ![r].pc = "answered", ![r].route = "process",
                                         ![r].answer = 404]
                   ELSE [requests EXCEPT ![r].pc = "check", ![r].route = "process"]
  /\ UNCHANGED <<orchestratorVars, registryVars, pdfVars, processingResults,
                 documentStatus, cleanupVars>>

\* await storage.getProcessingResult(documentId): with a stored result the
\* manual route answers 400 and the upload route skips the processing.
GetProcessingResult(r) ==
  /\ requests[r].pc = "check"
  /\ requests' = IF \E i \in 1..Len(processingResults) :
                        processingResults[i].documentId = "d1"
                   THEN Answered(r, IF requests[r].route = "process" THEN 400 ELSE 201)
                   ELSE At(r, "mark")
  /\ UNCHANGED <<orchestratorVars, registryVars, pdfVars, processingResults,
                 documentStatus, cleanupVars>>

\* await storage.updateDocumentStatus(documentId, 'processing').
MarkProcessing(r) ==
  /\ requests[r].pc = "mark"
  /\ documentStatus' = "processing"
  /\ requests' = At(r, "run")
  /\ UNCHANGED <<orchestratorVars, registryVars, pdfVars, processingResults, cleanupVars>>

\* await orchestratedProcessor.processDocumentOrchestrated(...) returns.
ProcessDocumentOrchestrated(r) ==
  /\ requests[r].pc = "run"
  /\ \E result \in RunResults :
       requests' = [requests EXCEPT ![r].pc = "store", ![r].result = result]
  /\ UNCHANGED <<orchestratorVars, registryVars, pdfVars, processingResults,
                 documentStatus, cleanupVars>>

\* await storage.createOrchestratedProcessingResult(documentId, result).
CreateOrchestratedProcessingResult(r) ==
  /\ requests[r].pc = "store"
  /\ processingResults' =
       Append(processingResults,
              createOrchestratedProcessingResult("d1", requests[r].result))
  /\ requests' = At(r, "status")
  /\ UNCHANGED <<orchestratorVars, registryVars, pdfVars, documentStatus, cleanupVars>>

\* await storage.updateDocumentStatus(documentId, finalStatus, new Date())
\* and the response.
UpdateFinalStatus(r) ==
  /\ requests[r].pc = "status"
  /\ documentStatus' = finalStatus(requests[r].result)
  /\ requests' = Answered(r, IF requests[r].route = "process" THEN 200 ELSE 201)
  /\ UNCHANGED <<orchestratorVars, registryVars, pdfVars, processingResults, cleanupVars>>

\* A server with an API key, before the requests: document d1 uploaded
\* already, or not yet.
RouteInit ==
  /\ pc = "Serving"
  /\ apiKeyConfigured = TRUE
  /\ mimeType = "application/pdf"
  /\ fileName = "scan.pdf"
  /\ invoked = <<>>
  /\ pending = {}
  /\ results = <<>>
  /\ iterations = <<>>
  /\ orchestratedResult = NoRun
  /\ agentMetrics = InitialMetrics
  /\ executionHistory = <<>>
  /\ apiCallLogs = <<>>
  /\ thrown = {}
  /\ backendCalls = [a \in AgentNames |-> 0]
  /\ hung = {}
  /\ recordLog = [a \in AgentNames |-> <<>>]
  /\ completedRuns = <<>>
  /\ historyView = NoView
  /\ agentConfigs = InitialConfigs
  /\ shouldExecuteView = NoDecision
  /\ pdfBuffer = SoundPDF
  /\ pdfResults = [a \in ContentAgents |-> NoPDFResult]
  /\ content = [a \in ContentAgents |-> NotSent]
  /\ requests = [r \in RequestIds |-> NoRequest]
  /\ processingResults = <<>>
  /\ documentStatus \in {"none", "uploaded"}
  /\ isRunning = FALSE
  /\ timers = [timeouts |-> 0, intervals |-> 0]
  /\ cleanupCalls = <<>>
  /\ documents = {}

RouteNext ==
  \E r \in RequestIds :
    \/ UploadArrives(r)
    \/ ProcessOrchestratedArrives(r)
    \/ GetProcessingResult(r)
    \/ MarkProcessing(r)
    \/ ProcessDocumentOrchestrated(r)
    \/ CreateOrchestratedProcessingResult(r)
    \/ UpdateFinalStatus(r)

RouteSpec == RouteInit /\ [][RouteNext]_vars

\* ------------------------------------------------------- document cleanup
\* Numbers of startAutomaticCleanup and runCleanup calls explored.
MaxStarts == 2
MaxCleanups == 3

ExpiredDocuments == {"d1", "d2"}

getEmptyMetrics == [documentsDeleted |-> 0]

CleanupCall(trigger, step, duringAnother) ==
  [trigger |-> trigger, pc |-> step, duringAnother |-> duringAnother, todo |-> {},
   metrics |-> getEmptyMetrics]

InProgress(call) == call.pc \in {"select", "delete"}

\* The synchronous head of runCleanup: return the empty metrics while another
\* cleanup is running, else take isRunning and go on to the first query.
runCleanup(trigger) ==
  /\ Len(cleanupCalls) < MaxCleanups
  /\ IF isRunning
       THEN /\ cleanupCalls' = Append(cleanupCalls, CleanupCall(trigger, "skipped", TRUE))
            /\ UNCHANGED isRunning
       ELSE /\ cleanupCalls' = Append(cleanupCalls, CleanupCall(trigger, "select", FALSE))
            /\ isRunning' = TRUE

\* startAutomaticCleanup arms a one-minute timeout and a six-hour interval.
StartAutomaticCleanup ==
  /\ timers.intervals < MaxStarts
  /\ timers' = [timeouts |-> timers.timeouts + 1, intervals |-> timers.intervals + 1]
  /\ UNCHANGED <<orchestratorVars, registryVars, pdfVars, routeVars, isRunning,
                 cleanupCalls, documents>>

\* A one-minute timeout fires (once).
InitialCleanupFires ==
  /\ timers.timeouts > 0
  /\ timers' = [timers EXCEPT !.timeouts = @ - 1]
  /\ runCleanup("timeout")
  /\ UNCHANGED <<orchestratorVars, registryVars, pdfVars, routeVars, documents>>

\* A six-hour interval fires.
PeriodicCleanupFires ==
  /\ timers.intervals > 0
  /\ runCleanup("interval")
  /\ UNCHANGED <<orchestratorVars, registryVars, pdfVars, routeVars, timers, documents>>

\* The manual cleanup route awaits documentCleanupManager.runCleanup().
ManualCleanup ==
  /\ runCleanup("route")
  /\ UNCHANGED <<orchestratorVars, registryVars, pdfVars, routeVars, timers, documents>>

\* A call ends: the finally block releases isRunning.
Ended(i, step) ==
  /\ cleanupCalls' = [cleanupCalls EXCEPT ![i].pc = step, ![i].todo = {}]
  /\ isRunning' = FALSE

\* As SelectExpired with a failed query leaving isRunning set (no finally).
SelectExpired_NoFinally(i) ==
  /\ cleanupCalls[i].pc = "select"
  /\ \/ IF documents = {}
          THEN Ended(i, "done")
          ELSE /\ cleanupCalls' = [cleanupCalls EXCEPT ![i].pc = "delete",
                                                        ![i].todo = documents]
               /\ UNCHANGED isRunning
     \/ /\ cleanupCalls' = [cleanupCalls EXCEPT ![i].pc = "thrown"]
        /\ UNCHANGED isRunning
  /\ UNCHANGED <<orchestratorVars, registryVars, pdfVars, routeVars, timers, documents>>

\* The query for expired documents returns its rows, or throws: the catch
\* rethrows and the finally block runs.
SelectExpired(i) ==
  /\ cleanupCalls[i].pc = "select"
  /\ \/ IF documents = {}
          THEN Ended(i, "done")
          ELSE /\ cleanupCalls' = [cleanupCalls EXCEPT ![i].pc = "delete",
                                                        ![i].todo = documents]
               /\ UNCHANGED isRunning
     \/ Ended(i, "thrown")
  /\ UNCHANGED <<orchestratorVars, registryVars, pdfVars, routeVars, timers, documents>>

\* One turn of the loop: the document and its rows are deleted, or a
\* statement throws and the inner catch logs it; after the last document the
\* call ends.
DeleteDocument(i) ==
  /\ cleanupCalls[i].pc = "delete"
  /\ \E document \in cleanupCalls[i].todo, deleted \in BOOLEAN :
       /\ documents' = IF deleted THEN documents \ {document} ELSE documents
       /\ cleanupCalls' =
            [cleanupCalls EXCEPT
               ![i].todo = @ \ {document},
               ![i].metrics.documentsDeleted = IF deleted THEN @ + 1 ELSE @,
               ![i].pc = IF cleanupCalls[i].todo = {document} THEN "done" ELSE @]
       /\ isRunning' = IF cleanupCalls[i].todo = {document} THEN FALSE ELSE isRunning
  /\ UNCHANGED <<orchestratorVars, registryVars, pdfVars, routeVars, timers>>

\* The server after registerRoutes defined the routes, with some expired
\* documents in the table.
CleanupInit ==
  /\ pc = "Serving"
  /\ apiKeyConfigured = TRUE
  /\ mimeType = "application/pdf"
  /\ fileName = "scan.pdf"
  /\ invoked = <<>>
  /\ pending = {}
  /\ results = <<>>
  /\ iterations = <<>>
  /\ orchestratedResult = NoRun
  /\ agentMetrics = InitialMetrics
  /\ executionHistory = <<>>
  /\ apiCallLogs = <<>>
  /\ thrown = {}
  /\ backendCalls = [a \in AgentNames |-> 0]
  /\ hung = {}
  /\ recordLog = [a \in AgentNames |-> <<>>]
  /\ completedRuns = <<>>
  /\ historyView = NoView
  /\ agentConfigs = InitialConfigs
  /\ shouldExecuteView = NoDecision
  /\ pdfBuffer = SoundPDF
  /\ pdfResults = [a \in ContentAgents |-> NoPDFResult]
  /\ content = [a \in ContentAgents |-> NotSent]
  /\ requests = [r \in RequestIds |-> NoRequest]
  /\ processingResults = <<>>
  /\ documentStatus = "uploaded"
  /\ isRunning = FALSE
  /\ timers = [timeouts |-> 0, intervals |-> 0]
  /\ cleanupCalls = <<>>
  /\ documents \in SUBSET ExpiredDocuments

CleanupNext ==
  \/ StartAutomaticCleanup
  \/ InitialCleanupFires
  \/ PeriodicCleanupFires
  \/ ManualCleanup
  \/ \E i \in 1..Len(cleanupCalls) : SelectExpired(i) \/ DeleteDocument(i)

CleanupSpec == CleanupInit /\ [][CleanupNext]_vars

\* ------------------------------------------------- tuning before a run
\* Agents an operator switches off or on before the request arrives: one of
\* each stage.
TunedNames == {"classification_agent", "argentina_fiscal_agent", "cross_validation_agent"}

\* The server when POST /api/documents/:id/process-orchestrated is about to
\* arrive for scan.pdf, the registry still open to updates.
TuningInit ==
  /\ ServiceInit
  /\ apiKeyConfigured
  /\ mimeType = "application/pdf"
  /\ fileName = "scan.pdf"

TuningNext ==
  \/ /\ pc = "Request"
     /\ \E agentName \in TunedNames, enabled \in BOOLEAN :
          UpdateAgentConfig(agentName, [enabled |-> enabled])
  \/ PostProcessOrchestrated
  \/ Next

TuningSpec == TuningInit /\ [][TuningNext]_vars

\* ------------------------------------------------------- PDF pre-processing
\* What pdf2pic does with the buffer: converts a first page, converts no page
\* (a page error or an empty buffer ends the loop), or throws outside the
\* page loop. What pdf-parse does: returns text, returns '', or throws.
Rasters == {"pages", "none", "throws"}
Texts == {"text", "blank", "throws"}

convertPDFToImages(buffer) ==
  [threw |-> buffer.raster = "throws",
   images |-> IF buffer.raster = "pages" THEN <<"page1">> ELSE <<>>]

\* The catch inside extractTextFromPDF returns the empty structure.
extractTextFromPDF(buffer) ==
  [threw |-> FALSE,
   text |-> IF buffer.text = "text" THEN "invoice text" ELSE "",
   numpages |-> IF buffer.text = "throws" THEN 0 ELSE 1]

analyzeDocumentQuality(textData, images) ==
  IF textData.text # "" THEN "high" ELSE IF Len(images) > 0 THEN "medium" ELSE "low"

PDFResult(raised, images, textContent, pageCount, quality) ==
  [called |-> TRUE, raised |-> raised, images |-> images, textContent |-> textContent,
   pageCount |-> pageCount, quality |-> quality]

\* As processPDF with the outer catch rethrowing instead of falling back.
processPDF_Rethrows(buffer) ==
  LET images == convertPDFToImages(buffer)
      textData == extractTextFromPDF(buffer)
  IN IF ~images.threw /\ ~textData.threw
       THEN PDFResult(FALSE, images.images, textData.text, Len(images.images),
                      analyzeDocumentQuality(textData, images.images))
       ELSE PDFResult(TRUE, <<>>, "", 0, "error")

processPDF(buffer) ==
  LET images == convertPDFToImages(buffer)
      textData == extractTextFromPDF(buffer)
  IN IF ~images.threw /\ ~textData.threw
       THEN PDFResult(FALSE, images.images, textData.text, Len(images.images),
                      analyzeDocumentQuality(textData, images.images))
       ELSE LET textResult == extractTextFromPDF(buffer) IN
            IF ~textResult.threw
              THEN PDFResult(FALSE, <<>>, textResult.text,
                             IF textResult.numpages = 0 THEN 1 ELSE textResult.numpages,
                             "text-only")
              ELSE PDFResult(FALSE, <<>>, "", 1, "error")

ImagePart(data) == [type |-> "image", data |-> data]
TextPart(data) == [type |-> "text", data |-> data]

\* The content array both Stage-1 agents build: for a PDF, the first
\* rasterized page with the extracted text, or the text alone, or (had
\* processPDF thrown) the file name, followed by the task; for any other
\* MIME type, one text part naming the file.
buildContent(mime, pdfResult) ==
  IF mime = "application/pdf"
    THEN (IF pdfResult.raised
            THEN <<TextPart("emergency")>>
            ELSE IF Len(pdfResult.images) > 0
              THEN <<ImagePart(pdfResult.images[1]), TextPart(pdfResult.textContent)>>
              ELSE <<TextPart(IF pdfResult.textContent = "" THEN "no text"
                              ELSE pdfResult.textContent)>>)
         \o <<TextPart("task")>>
    ELSE <<TextPart("file name")>>

\* A Stage-1 agent awaits pdfProcessor.processPDF(params.fileBuffer).
ProcessPDF(agent) ==
  /\ pc = "Preprocess"
  /\ mimeType = "application/pdf"
  /\ ~pdfResults[agent].called
  /\ pdfResults' = [pdfResults EXCEPT ![agent] = processPDF(pdfBuffer)]
  /\ UNCHANGED <<orchestratorVars, registryVars, pdfBuffer, content, routeVars, cleanupVars>>

\* The agent passes its content to anthropic.messages.create.
SendContent(agent) ==
  /\ pc = "Preprocess"
  /\ mimeType = "application/pdf" => pdfResults[agent].called
  /\ content[agent] = NotSent
  /\ content' = [content EXCEPT ![agent] = buildContent(mimeType, pdfResults[agent])]
  /\ UNCHANGED <<orchestratorVars, registryVars, pdfBuffer, pdfResults, routeVars,
                 cleanupVars>>

\* Stage 1 has started its agents on an uploaded PDF or image.
PreprocessInit ==
  /\ pc = "Preprocess"
  /\ apiKeyConfigured = TRUE
  /\ mimeType \in MimeTypes
  /\ fileName \in FileNames
  /\ invoked = Stage1Agents
  /\ pending = {Stage1Agents[i] : i \in 1..Len(Stage1Agents)}
  /\ results = Unsettled(Stage1Agents)
  /\ iterations = <<>>
  /\ orchestratedResult = NoRun
  /\ agentMetrics = InitialMetrics
  /\ executionHistory = <<>>
  /\ apiCallLogs = <<>>
  /\ thrown = {}
  /\ backendCalls = [a \in AgentNames |-> 0]
  /\ hung = {}
  /\ recordLog = [a \in AgentNames |-> <<>>]
  /\ completedRuns = <<>>
  /\ historyView = NoView
  /\ agentConfigs = InitialConfigs
  /\ shouldExecuteView = NoDecision
  /\ pdfBuffer \in IF mimeType = "application/pdf"
                     THEN [raster : Rasters, text : Texts] ELSE {SoundPDF}
  /\ pdfResults = [a \in ContentAgents |-> NoPDFResult]
  /\ content = [a \in ContentAgents |-> NotSent]
  /\ requests = [r \in RequestIds |-> NoRequest]
  /\ processingResults = <<>>
  /\ documentStatus = "processing"
  /\ isRunning = FALSE
  /\ timers = [timeouts |-> 0, intervals |-> 0]
  /\ cleanupCalls = <<>>
  /\ documents = {}

PreprocessNext ==
  \E agent \in ContentAgents :
    \/ ProcessPDF(agent)
    \/ SendContent(agent)

PreprocessSpec == PreprocessInit /\ [][PreprocessNext]_vars

\* ----------------------------------------------------------------- claims
Returned == orchestratedResult.returned

Names(agentResults) == [j \in 1..Len(agentResults) |-> agentResults[j].agentName]

StageNo(stage) ==
  CASE stage = "Stage1" -> 1 [] stage = "Stage2" -> 2 [] stage = "Stage3" -> 3
    [] OTHER -> 4

\* C1: a returned run has between 1 and 3 iterations, and the k-th iteration
\* carries iterationNumber k (1, 2, ..., len, no gap, no repeat).
C1_IterationNumbering ==
  Returned =>
    /\ Len(iterations) \in 1..3
    /\ \A k \in 1..Len(iterations) : iterations[k].iterationNumber = k

C1_Witness ==
  /\ Returned
  /\ Len(iterations) = 3
  /\ thrown # {}

\* C2: every iteration's overallConfidence lies in [0, 100], whatever the
\* backend answers (a reported confidence outside 0..100 included).
C2_ConfidenceInRange ==
  \A k \in 1..Len(iterations) :
    /\ iterations[k].overallConfidence >= 0
    /\ iterations[k].overallConfidence <= 100

\* C3: whichever backend calls throw, every stage yields one result per
\* invoked agent, a fallback result (fixed confidence, conflict marker)
\* standing for each call that threw, and the run is never left unable to
\* continue before it has returned.
FallbackConfidence ==
  [classification_agent |-> 30, structural_extraction_agent |-> 40,
   argentina_fiscal_agent |-> 50, international_trade_agent |-> 45,
   conflict_resolution_agent |-> 60, cross_validation_agent |-> 80]

InvokedIn(k) ==
  CASE k = 1 -> Stage1Agents
    [] k = 2 -> specializationAgents(iterations[1])
    [] OTHER -> <<"cross_validation_agent">>

\* The agents a Run action of the stage can settle.
RunnableIn(stage) ==
  CASE stage = "Stage1" -> {Stage1Agents[i] : i \in 1..Len(Stage1Agents)}
    [] stage = "Stage2" -> {"argentina_fiscal_agent", "international_trade_agent",
                            "conflict_resolution_agent"}
    [] stage = "Stage3" -> {"cross_validation_agent"}
    [] OTHER -> {}

C5_Stage2Decision ==
  Returned =>
    (Len(iterations) >= 2
       <=> (iterations[1].overallConfidence < 85
            \/ hasConflicts(iterations[1].agentResults)))

\* C6: iteration 3 is executed exactly when iteration 2 ran, its overall
\* confidence is below 95 and one of the four critical fields is missing or
\* null in its consolidated data; with the four present it is skipped.
C6_Stage3Decision ==
  Returned =>
    (Len(iterations) = 3
       <=> /\ Len(iterations) >= 2
           /\ iterations[2].overallConfidence < 95
           /\ \E f \in criticalFields :
                iterations[2].consolidatedData[f] \in {Absent, Null})

\* C7: in Stage 2 the Argentina fiscal agent is invoked exactly when the
\* origin consolidated by Stage 1 is 'argentina' or 'unknown', and the
\* international-trade agent exactly when it is 'international' or 'unknown'.
InStage2(agent) ==
  \/ pc = "Stage2" /\ \E i \in 1..Len(invoked) : invoked[i] = agent
  \/ /\ Len(iterations) >= 2
     /\ \E j \in 1..Len(iterations[2].agentResults) :
          iterations[2].agentResults[j].agentName = agent

Stage2Started == pc = "Stage2" \/ Len(iterations) >= 2

C8_ConflictResolutionInvoked ==
  Stage2Started =>
    (InStage2("conflict_resolution_agent") <=> hasConflicts(iterations[1].agentResults))

\* C9: Stage 3 invokes the cross-validation agent alone; its data mapping is
\* the iteration's and the run's final data as it came, its confidence is the
\* final confidence, requiresNextIteration is false and the run is over.
C9_Stage3IsFinal ==
  /\ pc = "Stage3" => invoked = <<"cross_validation_agent">>
  /\ Len(iterations) = 3 =>
       LET it3 == iterations[3] IN
       /\ Names(it3.agentResults) = <<"cross_validation_agent">>
       /\ it3.consolidatedData = it3.agentResults[1].extractedData
       /\ it3.overallConfidence = it3.agentResults[1].confidence
       /\ ~it3.requiresNextIteration
       /\ pc = "Done"
       /\ orchestratedResult.finalResult = it3.agentResults[1].extractedData
       /\ orchestratedResult.processingMetrics.finalConfidence
            = it3.agentResults[1].confidence

C9_Witness ==
  /\ Len(iterations) = 3
  /\ iterations[3].agentResults[1].extractedData["invoiceNumber"] = Null
  /\ iterations[2].consolidatedData["invoiceNumber"] = "v1"

\* C10: folding a result into the running mapping, a field with a non-null,
\* non-empty new value takes that value exactly when the running value is
\* absent or the result's confidence is above 75.
ClaimedMerge(consolidated, result) ==
  [k \in Fields |->
     LET value == result.extractedData[k] IN
     IF value \notin {Null, Absent, Empty}
        /\ (consolidated[k] = Absent \/ result.confidence > 75)
       THEN value
       ELSE consolidated[k]]

RECURSIVE ClaimedFold(_, _)
ClaimedFold(consolidated, agentResults) ==
  IF agentResults = <<>> THEN consolidated
  ELSE ClaimedFold(ClaimedMerge(consolidated, Head(agentResults)), Tail(agentResults))

C10_MergeRule ==
  /\ Len(iterations) >= 1 =>
       iterations[1].consolidatedData
         = ClaimedFold(EmptyData, iterations[1].agentResults)
  /\ Len(iterations) >= 2 =>
       iterations[2].consolidatedData
         = ClaimedFold(EmptyData,
                       iterations[1].agentResults \o iterations[2].agentResults)

\* C11: during consolidation a field's value is only ever replaced by a
\* non-empty value of a result whose confidence is at least the confidence of
\* the result that supplied the value being replaced.
NoSupplier == [k \in Fields |-> 0 - 1]

\* Replays the fold over agentResults; supplier[k] is the confidence of the
\* result the running value of k came from.
RECURSIVE OverwritesByHigherConfidence(_, _, _)
OverwritesByHigherConfidence(consolidated, supplier, agentResults) ==
  IF agentResults = <<>> THEN TRUE
  ELSE LET result == Head(agentResults)
           merged == MergeResult(consolidated, result)
           changed == {k \in Fields : merged[k] # consolidated[k]}
       IN /\ \A k \in changed :
               consolidated[k] # Absent =>
                 /\ merged[k] \notin {Null, Empty}
                 /\ result.confidence >= supplier[k]
          /\ OverwritesByHigherConfidence(
               merged,
               [k \in Fields |-> IF k \in changed THEN result.confidence ELSE supplier[k]],
               Tail(agentResults))

C11_OverwriteByHigherConfidence ==
  /\ Len(iterations) >= 1 =>
       OverwritesByHigherConfidence(EmptyData, NoSupplier, iterations[1].agentResults)
  /\ Len(iterations) >= 2 =>
       OverwritesByHigherConfidence(EmptyData, NoSupplier,
         iterations[1].agentResults \o iterations[2].agentResults)

\* C12: a field present in an iteration's consolidatedData is still present
\* in the next iteration's consolidatedData, from iteration 2 to iteration 3
\* included.
C12_FieldsNeverDropped ==
  \A k \in 1..(Len(iterations) - 1) :
    \A f \in Fields :
      iterations[k].consolidatedData[f] # Absent
        => iterations[k + 1].consolidatedData[f] # Absent

\* n is Math.round(num / den): the integer nearest to the quotient, a half
\* rounded up.  No integer is the rounding of a quotient by 0.
IsRounded(n, num, den) ==
  /\ den > 0
  /\ 2 * den * n - den <= 2 * num
  /\ 2 * num < 2 * den * n + den

ScenarioA ==
  /\ Len(iterations) >= 1
  /\ LET agentResults == iterations[1].agentResults IN
     /\ agentResults[1].confidence = 90 /\ Len(agentResults[1].specialization) = 3
     /\ agentResults[2].confidence = 90 /\ Len(agentResults[2].specialization) = 4
     /\ agentResults[3].confidence = 60 /\ Len(agentResults[3].specialization) = 2
     /\ agentResults[3].extractedData = EmptyData
     /\ ~hasConflicts(agentResults)

\* C14 (as claimed): in Scenario A the Stage-1 overall confidence is
\* round((90*3 + 90*4 + 60*2) / (3+4+2)), it is at least 85,
\* requiresNextIteration is false and the run stops with one iteration.
C14_ScenarioAStops ==
  ScenarioA =>
    /\ IsRounded(iterations[1].overallConfidence, 90 * 3 + 90 * 4 + 60 * 2, 3 + 4 + 2)
    /\ iterations[1].overallConfidence >= 85
    /\ ~iterations[1].requiresNextIteration
    /\ pc = "Done"
    /\ Len(iterations) = 1

\* C14 (amended): in Scenario A the Stage-1 overall confidence is
\* round((90*3 + 90*4 + 60*2) / (3+4+2)) = 83, below the threshold 85, so
\* requiresNextIteration is true and the run goes on to Stage 2.
C14_ScenarioAContinues ==
  ScenarioA =>
    /\ IsRounded(iterations[1].overallConfidence, 90 * 3 + 90 * 4 + 60 * 2, 3 + 4 + 2)
    /\ iterations[1].overallConfidence = 83
    /\ iterations[1].requiresNextIteration
    /\ Stage2Started

C14_Witness ==
  /\ ScenarioA
  /\ Returned
  /\ Len(iterations) >= 2
  /\ iterations[1].consolidatedData["documentOrigin"] = "argentina"

\* Scenario C of the specification: every backend call of the run threw (the
\* metadata agent makes none).
AllCallsThrew ==
  \A k \in 1..Len(iterations) :
    \A j \in 1..Len(iterations[k].agentResults) :
      iterations[k].agentResults[j].agentName # "metadata_agent"
        => iterations[k].agentResults[j].agentName \in thrown

Confidences(agentResults) == [j \in 1..Len(agentResults) |-> agentResults[j].confidence]

C16_FailedCallFallback ==
  \A k \in 1..Len(iterations) :
    \A j \in 1..Len(iterations[k].agentResults) :
      LET r == iterations[k].agentResults[j] IN
      r.agentName \in thrown =>
        /\ r.confidence = FallbackConfidence[r.agentName]
        /\ \A f \in criticalFields : r.extractedData[f] = Absent

\* C17: a response that is not JSON yields a fallback result (conflict
\* marker, fallback confidence), and the parse-error payload never becomes
\* part of the consolidated data.
C17_ParseFailureIsFallback ==
  \A k \in 1..Len(iterations) :
    /\ iterations[k].consolidatedData["error"] = Absent
    /\ \A j \in 1..Len(iterations[k].agentResults) :
         LET r == iterations[k].agentResults[j] IN
         r.extractedData["error"] = ParseErrorText =>
           /\ Len(r.conflicts) > 0
           /\ r.confidence = FallbackConfidence[r.agentName]

\* C18: every agent result's confidence lies in [0, 100], a confidence the
\* model reports outside that range being clamped into it.
C18_AgentConfidenceInRange ==
  \A k \in 1..Len(iterations) :
    \A j \in 1..Len(iterations[k].agentResults) :
      iterations[k].agentResults[j].confidence \in 0..100

\* C19: an iteration's overallConfidence is never lower than the previous
\* iteration's, so the final confidence is at least Stage 1's.
C19_ConfidenceNeverDecreases ==
  /\ \A k \in 1..(Len(iterations) - 1) :
       iterations[k + 1].overallConfidence >= iterations[k].overallConfidence
  /\ Returned =>
       orchestratedResult.processingMetrics.finalConfidence
         >= iterations[1].overallConfidence

\* C20: a fallback result is produced only after the failing backend call
\* was retried as many times as the agent's maxRetries allows.
C20_RetriedBeforeFallback ==
  \A agent \in thrown : backendCalls[agent] = 1 + defaultConfigs[agent].maxRetries

\* C21: a backend call that is never answered does not block the run: the
\* invocation is completed with a fallback once the agent's timeout has
\* passed, so a run that has not returned is never left waiting only for
\* calls that will never be answered.
C21_TimeoutReleasesBarrier ==
  ~(pending # {} /\ pending \subseteq hung)

\* C25: without an API key the request is rejected before any stage: no
\* agent is invoked, no backend call is made, no agent metric and no
\* execution-history entry is written, and nothing is returned.
C25_NoKeyNoRun ==
  ~apiKeyConfigured =>
    /\ pc \in {"Request", "Rejected"}
    /\ invoked = <<>>
    /\ pending = {}
    /\ iterations = <<>>
    /\ \A a \in AgentNames :
         /\ backendCalls[a] = 0
         /\ agentMetrics[a].executions = 0
         /\ agentMetrics[a].errorCount = 0
    /\ executionHistory = <<>>
    /\ apiCallLogs = <<>>
    /\ ~Returned

C25_Witness ==
  /\ ~apiKeyConfigured
  /\ pc = "Rejected"

\* C22: a stage's agents are started only when every promise of the stage
\* before has settled, and an iteration (its consolidated data included) is
\* computed in the one step that follows the settling of all the stage's
\* promises, from all of their results.
AllSettled(agentResults) ==
  \A i \in 1..Len(agentResults) : agentResults[i] # NoResult

C22_FanInBarrier ==
  /\ [][pending' \ pending # {} => pending = {} /\ AllSettled(results) /\ pc' # pc]_vars
  /\ [][Len(iterations') > Len(iterations) =>
          /\ pending = {}
          /\ AllSettled(results)
          /\ Len(iterations') = Len(iterations) + 1
          /\ iterations'[Len(iterations')].agentResults = results
          /\ Len(iterations') <= 2 =>
               iterations'[Len(iterations')].consolidatedData
                 = consolidateAgentResults(
                     IF Len(iterations') = 2
                       THEN iterations[1].agentResults \o results
                       ELSE results)]_vars
  /\ [](pc = "Stage2" => Len(iterations) = 1 /\ Len(iterations[1].agentResults) = 3)
  /\ [](pc = "Stage3" => Len(iterations) = 2 /\ AllSettled(iterations[2].agentResults))

C22_Witness ==
  /\ pc = "Stage3"
  /\ Len(iterations[2].agentResults) = 2
  /\ pending = {}

\* C23: the iterations of a run and its continuation decisions are functions
\* of the agents' outputs taken by agent name: the order in which the calls
\* of a stage complete has no part in them.
OutputOf(agentResults, agent) ==
  CHOOSE r \in {agentResults[i] : i \in 1..Len(agentResults)} : r.agentName = agent

ByName(agentResults, agents) ==
  [i \in 1..Len(agents) |-> OutputOf(agentResults, agents[i])]

C23_Deterministic ==
  /\ Len(iterations) >= 1 =>
       iterations[1]
         = runIteration1_BaseAnalysis(ByName(iterations[1].agentResults, Stage1Agents))
  /\ Len(iterations) >= 2 =>
       iterations[2]
         = runIteration2_SpecializedRefinement(
             iterations[1],
             ByName(iterations[2].agentResults, specializationAgents(iterations[1])))
  /\ Len(iterations) >= 3 =>
       iterations[3] = runIteration3_FinalVerification(iterations[3].agentResults[1])
  /\ Returned =>
       Len(iterations)
         = IF ProceedToIteration2(iterations[1])
             THEN IF ProceedToIteration3(iterations[2]) THEN 3 ELSE 2
             ELSE 1

\* The trade agent's call completed before the fiscal agent's.
C23_Witness ==
  /\ Returned
  /\ Len(iterations) >= 2
  /\ Names(iterations[2].agentResults)
       = <<"argentina_fiscal_agent", "international_trade_agent">>
  /\ apiCallLogs = <<"classification_agent", "international_trade_agent",
                     "argentina_fiscal_agent">>
  /\ iterations[2].agentResults[1].extractedData["customerName"] = "v1"
  /\ iterations[2].agentResults[2].extractedData["totalAmount"] = "v2"

\* C24: for every stage and every successful result in it, the stage's
\* overall confidence with that result replaced by the same agent's failure
\* fallback is not higher than the confidence the stage has.
ThrowResponse ==
  [kind |-> "throw", data |-> EmptyData, hasConfidence |-> FALSE, confidence |-> 0]

FallbackOf(agent) ==
  CASE agent = "classification_agent" -> runClassificationAgent(ThrowResponse)
    [] agent = "structural_extraction_agent" ->
         runStructuralExtractionAgent(ThrowResponse, mimeType)
    [] agent = "argentina_fiscal_agent" -> runArgentineFiscalAgent(ThrowResponse)
    [] agent = "international_trade_agent" -> runInternationalTradeAgent(ThrowResponse)
    [] agent = "cross_validation_agent" ->
         runCrossValidationAgent(ThrowResponse, iterations[2])
    [] OTHER -> runConflictResolutionAgent(ThrowResponse)

C24_FailureLowersConfidence ==
  \A k \in 1..Len(iterations) :
    \A j \in 1..Len(iterations[k].agentResults) :
      LET agentResults == iterations[k].agentResults
          r == agentResults[j]
      IN (Len(r.conflicts) = 0 /\ r.agentName # "metadata_agent") =>
           calculateOverallConfidence(
             [agentResults EXCEPT ![j] = FallbackOf(r.agentName)])
             <= iterations[k].overallConfidence

\* C26: every invocation of an agent, successful or not, has added one to the
\* agent's executions, and one to its errorCount exactly when it failed.
SettledResults ==
  {results[i] : i \in {h \in 1..Len(results) : results[h] # NoResult}}
  \cup UNION {{iterations[k].agentResults[j] : j \in 1..Len(iterations[k].agentResults)} :
                k \in 1..Len(iterations)}

C26_EveryInvocationCounted ==
  \A agent \in AgentNames :
    LET invocations == {r \in SettledResults : r.agentName = agent}
        failures == {r \in invocations : Len(r.conflicts) > 0}
    IN /\ agentMetrics[agent].executions = Cardinality(invocations)
       /\ agentMetrics[agent].errorCount = Cardinality(failures)

\* C27: an agent's averageConfidence is the arithmetic mean of the
\* confidences of its successful recordAgentExecution calls (0 before the
\* first success); failed calls change neither the sum nor the divisor.
Successes(agent) == SelectSeq(recordLog[agent], LAMBDA call : call.success)

RECURSIVE SumConfidence(_)
SumConfidence(calls) ==
  IF calls = <<>> THEN 0 ELSE Head(calls).confidence + SumConfidence(Tail(calls))

C27_AverageOfSuccesses ==
  \A agent \in AgentNames :
    LET average == agentMetrics[agent].averageConfidence IN
    IF Successes(agent) = <<>>
      THEN average[1] = 0
      ELSE average[1] * Len(Successes(agent))
             = SumConfidence(Successes(agent)) * average[2]

\* C28: whatever the interleaving of the runs' recordAgentExecution calls, an
\* agent's executions is the number of calls made for it and its errorCount
\* the number of failed ones: no update is lost.
C28_NoLostUpdates ==
  \A agent \in AgentNames :
    /\ agentMetrics[agent].executions = Len(recordLog[agent])
    /\ agentMetrics[agent].errorCount
         = Len(recordLog[agent]) - Len(Successes(agent))

C28_Witness ==
  LET calls == recordLog["classification_agent"] IN
  /\ Len(calls) = 3
  /\ calls[1].run = "run1" /\ calls[2].run = "run2" /\ calls[3].run = "run1"
  /\ ~calls[2].success
  /\ calls[3].success

\* C29: the execution history never holds more than 100 entries; it is the
\* most recent completed runs in completion order, every completing run
\* appending one entry with its document id, its set of agent names, its
\* final confidence and its number of iterations.
C29_HistoryIsRecentRuns ==
  /\ [](Len(executionHistory) <= HistoryLimit)
  /\ [](LET kept == IF Len(completedRuns) < HistoryLimit
                     THEN Len(completedRuns) ELSE HistoryLimit
        IN executionHistory
             = SubSeq(completedRuns, Len(completedRuns) - kept + 1, Len(completedRuns)))
  /\ [](\A i \in 1..Len(executionHistory) :
          /\ executionHistory[i].documentId \in {"d1", "d2"}
          /\ executionHistory[i].agentsUsed \subseteq AgentNames
          /\ executionHistory[i].iterationsUsed \in 1..3
          /\ executionHistory[i].finalConfidence \in Int)
  /\ [][completedRuns' # completedRuns =>
          /\ Len(completedRuns') = Len(completedRuns) + 1
          /\ executionHistory'[Len(executionHistory')]
               = completedRuns'[Len(completedRuns')]]_vars

C29_Witness ==
  /\ Len(completedRuns) = HistoryLimit + 1
  /\ Len(executionHistory) = HistoryLimit
  /\ executionHistory[HistoryLimit].iterationsUsed = 3
  /\ executionHistory[HistoryLimit - 1].iterationsUsed = 1
  /\ executionHistory[HistoryLimit - 1].documentId = "d2"

\* C30: getExecutionHistory(limit) returns the min(limit, length) most recent
\* entries, newest first (none for limit 0), and leaves the stored history
\* as it was.
C30_RecentNewestFirst ==
  [][historyView' # historyView =>
       LET view == historyView'
           n == IF view.limit < Len(executionHistory)
                  THEN view.limit ELSE Len(executionHistory)
       IN /\ Len(view.entries) = n
          /\ \A i \in 1..n :
               view.entries[i] = executionHistory[Len(executionHistory) + 1 - i]
          /\ executionHistory' = executionHistory]_vars

\* C31: shouldExecuteAgent(name, hint) returns false for an unknown or disabled
\* agent, false for international_trade_agent under the hint 'argentina',
\* false for argentina_fiscal_agent under the hint 'international' and true
\* otherwise; the call changes no agent config, no agent metric and no entry
\* of the execution history.
C31_ShouldExecuteIsPure ==
  [][shouldExecuteView' # shouldExecuteView =>
       LET view == shouldExecuteView'
           refused == \/ view.agentName \notin AgentNames
                      \/ ~agentConfigs[view.agentName].enabled
                      \/ /\ view.agentName = "international_trade_agent"
                         /\ view.documentType = "argentina"
                      \/ /\ view.agentName = "argentina_fiscal_agent"
                         /\ view.documentType = "international"
       IN /\ view.result = ~refused
          /\ UNCHANGED <<agentConfigs, agentMetrics, executionHistory>>]_vars

\* A disabled agent was refused while the registry held recorded metrics and
\* completed runs.
C31_Witness ==
  /\ shouldExecuteView.called
  /\ shouldExecuteView.agentName = "argentina_fiscal_agent"
  /\ shouldExecuteView.documentType = "argentina"
  /\ ~shouldExecuteView.result
  /\ ~agentConfigs["argentina_fiscal_agent"].enabled
  /\ agentMetrics["classification_agent"].executions = 1
  /\ Len(executionHistory) = 2

LogEntries(agent) == Cardinality({i \in 1..Len(apiCallLogs) : apiCallLogs[i] = agent})

\* C32: the apiCallLogs returned with a run hold exactly one entry for each
\* completion-backend call made during the run, for every agent and for failed
\* calls as well.
C32_OneLogEntryPerCall ==
  Returned => \A agent \in AgentNames : LogEntries(agent) = backendCalls[agent]

RasterizationFailed == pdfBuffer.raster \in {"none", "throws"}
TextExtractionFailed == pdfBuffer.text \in {"blank", "throws"}

\* C33: processPDF never raises: if rasterization fails it returns the
\* extracted text with an empty image list, if text extraction fails it
\* returns empty text, and if both fail it returns empty images and empty
\* text; the agent that called it goes on to its backend call.
C33_ProcessPDFNeverRaises ==
  \A agent \in ContentAgents :
    LET pdfResult == pdfResults[agent] IN
    pdfResult.called =>
      /\ ~pdfResult.raised
      /\ RasterizationFailed =>
            /\ pdfResult.images = <<>>
            /\ pdfResult.textContent = extractTextFromPDF(pdfBuffer).text
      /\ TextExtractionFailed => pdfResult.textContent = ""
      /\ RasterizationFailed /\ TextExtractionFailed =>
            pdfResult.images = <<>> /\ pdfResult.textContent = ""
      /\ content[agent] = NotSent => ENABLED SendContent(agent)
      /\ content[agent] # NotSent =>
            content[agent][Len(content[agent])] = TextPart("task")

\* Rasterization threw and pdf-parse threw, and the classification agent has
\* sent its text-only content.
C33_Witness ==
  /\ pdfBuffer = [raster |-> "throws", text |-> "throws"]
  /\ pdfResults["classification_agent"].called
  /\ pdfResults["classification_agent"].images = <<>>
  /\ content["classification_agent"] = <<TextPart("no text"), TextPart("task")>>

\* C34: for a non-PDF image input the uploaded image itself is attached, as a
\* single page, to the backend calls of the classification and structural
\* extraction agents.
C34_ImageAttached ==
  \A agent \in ContentAgents :
    mimeType # "application/pdf" /\ content[agent] # NotSent =>
      \E i \in 1..Len(content[agent]) : content[agent][i] = ImagePart("upload")

InvokedInRun(agent) ==
  \/ \E i \in 1..Len(invoked) : invoked[i] = agent
  \/ \E k \in 1..Len(iterations) :
       \E j \in 1..Len(iterations[k].agentResults) :
         iterations[k].agentResults[j].agentName = agent

\* C35: after updateAgentConfig(name, {enabled: false}), no run started
\* afterwards invokes that agent: no result with that agent name appears in
\* its iterations.
C35_DisabledAgentNotInvoked ==
  \A agent \in AgentNames : ~agentConfigs[agent].enabled => ~InvokedInRun(agent)

\* C36: every iteration of a run contains at least one agent result: Stage 2,
\* whenever it runs, invokes at least one specialised agent whatever
\* documentOrigin Stage 1 consolidated.
C36_EveryIterationHasResults ==
  \A k \in 1..Len(iterations) : Len(iterations[k].agentResults) >= 1

Quiet == \A r \in RequestIds : requests[r].pc \in {"none", "answered"}

\* C37: once a handler has stored the result of a run and set the final
\* status, the document is 'completed' exactly when the stored result has
\* needsValidation = false and 'validation_required' exactly when it has
\* needsValidation = true.
C37_StatusMatchesNeedsValidation ==
  Quiet /\ Len(processingResults) = 1 =>
    /\ documentStatus = "completed" <=> ~processingResults[1].needsValidation
    /\ documentStatus = "validation_required" <=> processingResults[1].needsValidation

\* C38: at most one processing result is ever stored per document: of two
\* concurrent process-orchestrated requests for the same document, at most
\* one runs the orchestration and stores a result.
C38_OneResultPerDocument ==
  Cardinality({i \in 1..Len(processingResults) :
                 processingResults[i].documentId = "d1"}) <= 1

Cleaning == {i \in 1..Len(cleanupCalls) : InProgress(cleanupCalls[i])}

\* C39: at most one document cleanup executes at a time: a runCleanup call
\* made while another is in progress returns all-zero metrics and deletes
\* nothing, and isRunning is false again whenever no cleanup is in progress,
\* whether the last one completed or threw.
C39_OneCleanupAtATime ==
  /\ Cardinality(Cleaning) <= 1
  /\ isRunning <=> Cleaning # {}
  /\ \A i \in 1..Len(cleanupCalls) :
       /\ cleanupCalls[i].duringAnother <=> cleanupCalls[i].pc = "skipped"
       /\ cleanupCalls[i].pc = "skipped" =>
            cleanupCalls[i].metrics = getEmptyMetrics /\ cleanupCalls[i].todo = {}

\* A call was skipped while the first one was running, the first one threw,
\* and a later call deleted a document.
C39_Witness ==
  /\ Len(cleanupCalls) = 3
  /\ cleanupCalls[1].pc = "thrown"
  /\ cleanupCalls[2].pc = "skipped"
  /\ cleanupCalls[3].pc = "done"
  /\ cleanupCalls[3].metrics.documentsDeleted = 1
  /\ ~isRunning

\* C40: after any number of startAutomaticCleanup calls there is at most one
\* periodic cleanup timer and at most one pending initial cleanup.
C40_NoDuplicateTimers ==
  timers.intervals <= 1 /\ timers.timeouts <= 1

====
